---- MODULE Spec2Model ----
(***************************************************************************)
(* Model of sagemaker_neo_compilation_jobs/mxnet_mnist/mnist.py.           *)
(*                                                                         *)
(* Three specifications share the module:                                  *)
(*   Spec      - a training job: one process per host, each running        *)
(*               train(...) with the same hosts list;                      *)
(*   SpecMain  - one process running the script from __main__              *)
(*               (parse_args, SM_NUM_GPUS, then train);                    *)
(*   SpecServe - the hosting hooks: model_fn once, then transform_fn       *)
(*               calls interleaved on the handle it returned.              *)
(* The framework calls (load of the gzip files, Module.fit, the forward    *)
(* pass, softmax arithmetic) are abstracted: a call either completes or    *)
(* raises, and its value is an uninterpreted term over its inputs.         *)
(***************************************************************************)
EXTENDS Integers, Sequences, FiniteSets, TLC

\* ------------------------------------------------------------- bounds
MaxHosts == 2
MaxN == 3
MaxGpus == 1
MaxRequests == 2

HostIds == {"algo-1", "algo-2", "algo-3"}
Procs == HostIds
MainProc == "algo-1"
GpuCounts == (0 - MaxGpus)..MaxGpus
Sizes == 0..MaxN

RECURSIVE SeqsUpTo(_, _)
SeqsUpTo(S, n) ==
    IF n = 0 THEN {<<>>}
    ELSE LET shorter == SeqsUpTo(S, n - 1)
         IN  shorter \cup {Append(s, x) : s \in {t \in shorter : Len(t) = n - 1}, x \in S}

HostLists == SeqsUpTo(HostIds, MaxHosts)

\* ------------------------------------------------------------- names
EnvVars == {"SM_MODEL_DIR", "SM_CHANNEL_TRAIN", "SM_CHANNEL_TEST",
            "SM_CURRENT_HOST", "SM_HOSTS", "SM_NUM_GPUS"}
CliFlags == {"--model-dir", "--train", "--test", "--current-host", "--hosts"}
\* the environment variable whose value is the default of each flag
FlagDefault ==
    [f \in CliFlags |->
        CASE f = "--model-dir"    -> "SM_MODEL_DIR"
          [] f = "--train"        -> "SM_CHANNEL_TRAIN"
          [] f = "--test"         -> "SM_CHANNEL_TEST"
          [] f = "--current-host" -> "SM_CURRENT_HOST"
          [] f = "--hosts"        -> "SM_HOSTS"]
ArtifactFiles == {"model-symbol.json", "model-0000.params", "model-shapes.json"}
NPY == "application/x-npy"
JSON == "application/json"
ContentTypes == {NPY, JSON}

VARIABLES
    \* --- one entry per process
    pc,             \* position in the script
    environ,        \* the environment variables that are set
    argv,           \* the CLI flags given on the command line
    hosts,          \* train's argument hosts
    current_host,   \* train's argument current_host
    num_gpus,       \* train's argument num_gpus
    loaded,         \* which datasets load_data has returned
    shard_bounds,   \* <<>> while start/end are unassigned, else <<start, end>>
    train_iter,     \* <<>> or <<set of training indices given to NDArrayIter>>
    kvstore,        \* "" or the mode given to fit
    context,        \* <<>> or <<the context given to Module>>
    fitted,         \* fit has returned
    files,          \* artifact files this process has written
    failedAt,       \* "" or the step that raised
    phases,         \* the steps entered so far, in order
    \* --- the job
    N,              \* len(train_images)
    \* --- serving
    mod,            \* the handle returned by model_fn
    fwd_owner,      \* whose batch the last mod.forward ran on
    rpc,            \* position of each transform_fn call
    payload, input_content_type, output_content_type,
    npy_payload,    \* <<>> or <<the deserialized tensor>>
    ret             \* <<>> or <<output_json, output_content_type>>

procVars == <<pc, environ, argv, hosts, current_host, num_gpus, loaded, shard_bounds,
              train_iter, kvstore, context, fitted, files, failedAt, phases>>
jobVars == <<N>>
serveVars == <<mod, fwd_owner, rpc, payload, input_content_type, output_content_type,
               npy_payload, ret>>
vars == <<procVars, jobVars, serveVars>>

Reqs == 1..MaxRequests

\* ------------------------------------------------------- pure functions
Range(s) == {s[k] : k \in 1..Len(s)}

\* for i, host in enumerate(hosts): if host == current_host: ... break
\* the 0-based positions at which current_host occurs
Matches(hs, h) == {i \in 0..(Len(hs) - 1) : hs[i + 1] = h}
FirstMatch(hs, h) == CHOOSE i \in Matches(hs, h) : \A j \in Matches(hs, h) : i <= j

\* shard_size = len(train_images) // len(hosts)
ShardSize(n, hs) == n \div Len(hs)

\* mutant: the shard runs one index too far
ShardBoundsOffByOne(n, hs, h) ==
    LET i == CHOOSE k \in 0..(Len(hs) - 1) : hs[k + 1] = h /\ \A j \in 0..(k - 1) : hs[j + 1] # h
        start == (n \div Len(hs)) * i
    IN  <<start, start + (n \div Len(hs)) + 1>>

\* start = shard_size * i ; end = start + shard_size
ShardBoundsFor(n, hs, h) ==
    LET i == FirstMatch(hs, h)
        start == ShardSize(n, hs) * i
    IN  <<start, start + ShardSize(n, hs)>>

\* train_images[start:end] for 0 <= start, 0 <= end: the indices it selects
Slice(n, start, end) == {k \in 0..(n - 1) : start <= k /\ k < end}

GpuCtx(i) == [device |-> "gpu", id |-> i]
CpuCtx == [device |-> "cpu", id |-> 0]
\* if num_gpus: [mx.gpu(i) for i in range(num_gpus)] else: mx.cpu()
get_training_context(g) ==
    IF g # 0
    THEN [isList |-> TRUE, devs |-> [k \in 1..g |-> GpuCtx(k - 1)]]
    ELSE [isList |-> FALSE, devs |-> <<CpuCtx>>]

\* mutant: the mode follows the host's role instead of the number of hosts
KvstoreByRole(hs, h) == IF h = hs[1] THEN "local" ELSE "dist_sync"

\* kvstore = 'local' if len(hosts) == 1 else 'dist_sync'
KvstoreFor(hs, h) == IF Len(hs) = 1 THEN "local" ELSE "dist_sync"

\* mutant: every host of the list persists
IsMember(hs, h) == \E k \in 1..Len(hs) : hs[k] = h

\* if current_host == hosts[0]
IsLeader(hs, h) == h = hs[1]

\* ----------------------------------------------------------- train
\* mutant: the error is swallowed and the run goes on to persist
RaiseAndContinue(p, where) ==
    /\ pc' = [pc EXCEPT ![p] = "persist"]
    /\ failedAt' = [failedAt EXCEPT ![p] = where]

\* no statement of train or __main__ is inside a try: an exception ends the run
Raise(p, where) ==
    /\ pc' = [pc EXCEPT ![p] = "failed"]
    /\ failedAt' = [failedAt EXCEPT ![p] = where]

Enter(p, phase) == phases' = [phases EXCEPT ![p] = Append(@, phase)]

\* (train_labels, train_images) = load_data(training_channel)
LoadTrain(p) ==
    /\ pc[p] = "train"
    /\ Enter(p, "load_train")
    /\ \/ /\ loaded' = [loaded EXCEPT ![p] = @ \cup {"train"}]
          /\ pc' = [pc EXCEPT ![p] = "load_test"]
          /\ UNCHANGED failedAt
       \/ /\ Raise(p, "load_train")
          /\ UNCHANGED loaded
    /\ UNCHANGED <<environ, argv, hosts, current_host, num_gpus, shard_bounds, train_iter,
                   kvstore, context, fitted, files, jobVars, serveVars>>

\* (test_labels, test_images) = load_data(testing_channel)
LoadTest(p) ==
    /\ pc[p] = "load_test"
    /\ Enter(p, "load_test")
    /\ \/ /\ loaded' = [loaded EXCEPT ![p] = @ \cup {"test"}]
          /\ pc' = [pc EXCEPT ![p] = "partition"]
          /\ UNCHANGED failedAt
       \/ /\ Raise(p, "load_test")
          /\ UNCHANGED loaded
    /\ UNCHANGED <<environ, argv, hosts, current_host, num_gpus, shard_bounds, train_iter,
                   kvstore, context, fitted, files, jobVars, serveVars>>

\* mutant: start and end are pre-assigned, so a host outside the list gets a shard
PartitionStepPreassigned(p) ==
    /\ phases' = [phases EXCEPT ![p] = Append(@, "partition")]
    /\ IF Len(hosts[p]) = 0
       THEN /\ pc' = [pc EXCEPT ![p] = "failed"]
            /\ failedAt' = [failedAt EXCEPT ![p] = "partition"]
            /\ UNCHANGED <<shard_bounds, train_iter>>
       ELSE LET b == IF \E k \in 1..Len(hosts[p]) : hosts[p][k] = current_host[p]
                     THEN ShardBoundsFor(N, hosts[p], current_host[p])
                     ELSE <<0, N \div Len(hosts[p])>>
            IN  /\ shard_bounds' = [shard_bounds EXCEPT ![p] = b]
                /\ train_iter' = [train_iter EXCEPT ![p] = <<Slice(N, b[1], b[2])>>]
                /\ pc' = [pc EXCEPT ![p] = "fit"]
                /\ UNCHANGED failedAt

\* shard_size, the loop over hosts, and the two NDArrayIter
PartitionStep(p) ==
    /\ Enter(p, "partition")
    /\ IF Len(hosts[p]) = 0
       THEN \* ZeroDivisionError in len(train_images) // len(hosts)
            /\ Raise(p, "partition")
            /\ UNCHANGED <<shard_bounds, train_iter>>
       ELSE IF Matches(hosts[p], current_host[p]) = {}
       THEN \* start and end were never assigned: train_images[start:end] raises
            /\ Raise(p, "partition")
            /\ UNCHANGED <<shard_bounds, train_iter>>
       ELSE LET b == ShardBoundsFor(N, hosts[p], current_host[p])
            IN  /\ shard_bounds' = [shard_bounds EXCEPT ![p] = b]
                /\ train_iter' = [train_iter EXCEPT ![p] = <<Slice(N, b[1], b[2])>>]
                /\ pc' = [pc EXCEPT ![p] = "fit"]
                /\ UNCHANGED failedAt

Partition(p) ==
    /\ pc[p] = "partition"
    /\ PartitionStep(p)
    /\ UNCHANGED <<environ, argv, hosts, current_host, num_gpus, loaded,
                   kvstore, context, fitted, files, jobVars, serveVars>>

\* kvstore, Module(context=get_training_context(num_gpus)), mlp_model.fit(...)
Fit(p) ==
    /\ pc[p] = "fit"
    /\ Enter(p, "fit")
    /\ kvstore' = [kvstore EXCEPT ![p] = KvstoreFor(hosts[p], current_host[p])]
    /\ context' = [context EXCEPT ![p] = <<get_training_context(num_gpus[p])>>]
    /\ \/ /\ fitted' = [fitted EXCEPT ![p] = TRUE]
          /\ pc' = [pc EXCEPT ![p] = "persist"]
          /\ UNCHANGED failedAt
       \/ /\ Raise(p, "fit")
          /\ UNCHANGED fitted
    /\ UNCHANGED <<environ, argv, hosts, current_host, num_gpus, loaded, shard_bounds,
                   train_iter, files, jobVars, serveVars>>

\* if current_host == hosts[0]: save(model_dir, mlp_model)
PersistStep(p) ==
    IF IsLeader(hosts[p], current_host[p])
    THEN /\ Enter(p, "save")
         /\ pc' = [pc EXCEPT ![p] = "save_symbol"]
    ELSE /\ pc' = [pc EXCEPT ![p] = "done"]
         /\ UNCHANGED phases

Persist(p) ==
    /\ pc[p] = "persist"
    /\ PersistStep(p)
    /\ UNCHANGED <<environ, argv, hosts, current_host, num_gpus, loaded, shard_bounds,
                   train_iter, kvstore, context, fitted, files, failedAt, jobVars,
                   serveVars>>

\* one of save's three writes: it creates the file or raises
SaveFile(p, at, file, next) ==
    /\ pc[p] = at
    /\ \/ /\ files' = [files EXCEPT ![p] = @ \cup {file}]
          /\ pc' = [pc EXCEPT ![p] = next]
          /\ UNCHANGED failedAt
       \/ /\ Raise(p, "save")
          /\ UNCHANGED files
    /\ UNCHANGED <<environ, argv, hosts, current_host, num_gpus, loaded, shard_bounds,
                   train_iter, kvstore, context, fitted, phases, jobVars, serveVars>>

\* model.symbol.save(os.path.join(model_dir, 'model-symbol.json'))
SaveSymbol(p) == SaveFile(p, "save_symbol", "model-symbol.json", "save_params")
\* model.save_params(os.path.join(model_dir, 'model-0000.params'))
SaveParams(p) == SaveFile(p, "save_params", "model-0000.params", "save_shapes")
\* with open(os.path.join(model_dir, 'model-shapes.json'), 'w') as f: json.dump(...)
SaveShapes(p) == SaveFile(p, "save_shapes", "model-shapes.json", "done")

ServeIdle ==
    /\ mod = [state |-> "unloaded", outputs |-> <<>>]
    /\ fwd_owner = 0
    /\ rpc = [r \in Reqs |-> "idle"]
    /\ payload = [r \in Reqs |-> [format |-> "none", tensor |-> "none"]]
    /\ input_content_type = [r \in Reqs |-> ""]
    /\ output_content_type = [r \in Reqs |-> ""]
    /\ npy_payload = [r \in Reqs |-> <<>>]
    /\ ret = [r \in Reqs |-> <<>>]

ProcFresh ==
    /\ loaded = [p \in Procs |-> {}]
    /\ shard_bounds = [p \in Procs |-> <<>>]
    /\ train_iter = [p \in Procs |-> <<>>]
    /\ kvstore = [p \in Procs |-> ""]
    /\ context = [p \in Procs |-> <<>>]
    /\ fitted = [p \in Procs |-> FALSE]
    /\ files = [p \in Procs |-> {}]
    /\ failedAt = [p \in Procs |-> ""]
    /\ phases = [p \in Procs |-> <<>>]

\* A job: every host runs train with the same hosts list, its own name as
\* current_host, the same dataset and the same instance type.
Init ==
    /\ ProcFresh
    /\ ServeIdle
    /\ pc = [p \in Procs |-> "train"]
    /\ environ = [p \in Procs |-> EnvVars]
    /\ argv = [p \in Procs |-> {}]
    /\ \E hs \in HostLists : hosts = [p \in Procs |-> hs]
    /\ current_host = [p \in Procs |-> p]
    /\ \E g \in GpuCounts : num_gpus = [p \in Procs |-> g]
    /\ N \in Sizes

Next ==
    \E p \in Procs :
        \/ LoadTrain(p)
        \/ LoadTest(p)
        \/ Partition(p)
        \/ Fit(p)
        \/ Persist(p)
        \/ SaveSymbol(p)
        \/ SaveParams(p)
        \/ SaveShapes(p)

Spec == Init /\ [][Next]_vars

\* ------------------------------------------------------------ __main__
\* mutant: a default is looked up only when its flag is not on the command line
ParseArgsRaisesLazily(env, flags) == \E f \in CliFlags \ flags : FlagDefault[f] \notin env

\* every default=os.environ[...] is evaluated while the parser is built,
\* whether or not the flag is on the command line: a missing one is a KeyError
ParseArgsRaises(env, flags) == \E f \in CliFlags : FlagDefault[f] \notin env

\* args = parse_args(). The values of hosts and current_host are inputs:
\* json.loads(SM_HOSTS) or list(<the --hosts string>), SM_CURRENT_HOST or
\* the --current-host string.
ParseArgs(p) ==
    /\ pc[p] = "main"
    /\ IF ParseArgsRaises(environ[p], argv[p])
       THEN /\ Raise(p, "parse_args")
            /\ UNCHANGED <<hosts, current_host>>
       ELSE /\ \E hs \in HostLists : hosts' = [hosts EXCEPT ![p] = hs]
            /\ \E h \in HostIds : current_host' = [current_host EXCEPT ![p] = h]
            /\ pc' = [pc EXCEPT ![p] = "read_gpus"]
            /\ UNCHANGED failedAt
    /\ UNCHANGED <<environ, argv, num_gpus, loaded, shard_bounds, train_iter, kvstore,
                   context, fitted, files, phases, jobVars, serveVars>>

\* num_gpus = int(os.environ['SM_NUM_GPUS']), then train(...) is called
ReadNumGpus(p) ==
    /\ pc[p] = "read_gpus"
    /\ IF "SM_NUM_GPUS" \notin environ[p]
       THEN /\ Raise(p, "num_gpus")
            /\ UNCHANGED num_gpus
       ELSE /\ \E g \in GpuCounts : num_gpus' = [num_gpus EXCEPT ![p] = g]
            /\ pc' = [pc EXCEPT ![p] = "train"]
            /\ UNCHANGED failedAt
    /\ UNCHANGED <<environ, argv, hosts, current_host, loaded, shard_bounds, train_iter,
                   kvstore, context, fitted, files, phases, jobVars, serveVars>>

\* One process started as a script, with any environment and command line.
InitMain ==
    /\ ProcFresh
    /\ ServeIdle
    /\ pc = [p \in Procs |-> IF p = MainProc THEN "main" ELSE "absent"]
    /\ \E env \in SUBSET EnvVars : environ = [p \in Procs |-> env]
    /\ \E flags \in SUBSET CliFlags : argv = [p \in Procs |-> flags]
    /\ hosts = [p \in Procs |-> <<>>]
    /\ current_host = [p \in Procs |-> ""]
    /\ num_gpus = [p \in Procs |-> 0]
    /\ N \in Sizes

NextMain ==
    \E p \in Procs :
        \/ ParseArgs(p)
        \/ ReadNumGpus(p)
        \/ LoadTrain(p)
        \/ LoadTest(p)
        \/ Partition(p)
        \/ Fit(p)
        \/ Persist(p)
        \/ SaveSymbol(p)
        \/ SaveParams(p)
        \/ SaveShapes(p)

SpecMain == InitMain /\ [][NextMain]_vars

\* ------------------------------------------------------------- serving
Tensors == {"x1", "x2"}
Payloads == [format : {"npy"}, tensor : Tensors] \cup {[format |-> "garbage", tensor |-> "none"]}

\* the first output of the bound module after forward on batch x
ForwardOut(x) == <<"forward", x>>
\* np.squeeze, then exp(x - max(x)) / sum(exp(x - max(x)))
Softmax(o) == <<"softmax">> \o o
\* json.dumps(result.tolist())
JsonDumps(v) == <<"json">> \o v
\* np.load(io.BytesIO(payload)) succeeds on a serialized array only
NpLoadRaises(pl) == pl.format # "npy"
NpLoad(pl) == pl.tensor

\* mutant: the content type is not checked
ContentTypeNeverRejected(ict) == FALSE

\* if input_content_type != 'application/x-npy': raise RuntimeError
ContentTypeRejected(ict) == ict # NPY

\* mutant: the raw output is serialized without the softmax
PostProcessRaw(o) == JsonDumps(o)

\* result = softmax(squeeze(mod.get_outputs()[0])); output_json = json.dumps(...)
PostProcess(o) == JsonDumps(Softmax(o))

\* mutant: the requested type is echoed back
ReturnedContentTypeRequested(requested) == requested

\* output_content_type = 'application/json'
ReturnedContentType(requested) == JSON

\* model_fn: load_checkpoint, bind, set_params, warm-up forward on empty data
ModelFn ==
    /\ mod.state = "unloaded"
    /\ \/ /\ mod' = [state |-> "ready", outputs |-> ForwardOut("empty")]
          /\ fwd_owner' = 0
       \/ /\ mod' = [mod EXCEPT !.state = "failed"]
          /\ UNCHANGED fwd_owner
    /\ UNCHANGED <<rpc, payload, input_content_type, output_content_type, npy_payload, ret,
                   procVars, jobVars>>

\* the serving runtime calls transform_fn(mod, payload, input_content_type,
\* output_content_type)
Call(r) ==
    /\ mod.state = "ready"
    /\ rpc[r] = "idle"
    /\ \E pl \in Payloads : payload' = [payload EXCEPT ![r] = pl]
    /\ \E ict \in ContentTypes : input_content_type' = [input_content_type EXCEPT ![r] = ict]
    /\ \E oct \in ContentTypes : output_content_type' = [output_content_type EXCEPT ![r] = oct]
    /\ rpc' = [rpc EXCEPT ![r] = "check"]
    /\ UNCHANGED <<mod, fwd_owner, npy_payload, ret, procVars, jobVars>>

CheckContentType(r) ==
    /\ rpc[r] = "check"
    /\ rpc' = [rpc EXCEPT ![r] = IF ContentTypeRejected(input_content_type[r])
                                  THEN "raised_content_type" ELSE "deserialize"]
    /\ UNCHANGED <<mod, fwd_owner, payload, input_content_type, output_content_type,
                   npy_payload, ret, procVars, jobVars>>

\* pre-processing: np.load, mx.nd.array, as_in_context
Deserialize(r) ==
    /\ rpc[r] = "deserialize"
    /\ IF NpLoadRaises(payload[r])
       THEN /\ rpc' = [rpc EXCEPT ![r] = "raised_load"]
            /\ UNCHANGED npy_payload
       ELSE /\ npy_payload' = [npy_payload EXCEPT ![r] = <<NpLoad(payload[r])>>]
            /\ rpc' = [rpc EXCEPT ![r] = "forward"]
    /\ UNCHANGED <<mod, fwd_owner, payload, input_content_type, output_content_type, ret,
                   procVars, jobVars>>

\* mod.forward(Batch([inference_payload])): the outputs are kept in the handle
Forward(r) ==
    /\ rpc[r] = "forward"
    /\ mod' = [mod EXCEPT !.outputs = ForwardOut(npy_payload[r][1])]
    /\ fwd_owner' = r
    /\ rpc' = [rpc EXCEPT ![r] = "get_outputs"]
    /\ UNCHANGED <<payload, input_content_type, output_content_type, npy_payload, ret,
                   procVars, jobVars>>

\* mod.get_outputs()[0] ... return output_json, output_content_type
GetOutputs(r) ==
    /\ rpc[r] = "get_outputs"
    /\ ret' = [ret EXCEPT ![r] = <<PostProcess(mod.outputs),
                                   ReturnedContentType(output_content_type[r])>>]
    /\ rpc' = [rpc EXCEPT ![r] = "returned"]
    /\ UNCHANGED <<mod, fwd_owner, payload, input_content_type, output_content_type,
                   npy_payload, procVars, jobVars>>

\* A serving process before model_fn; no training process runs in it.
InitServe ==
    /\ ProcFresh
    /\ ServeIdle
    /\ pc = [p \in Procs |-> "absent"]
    /\ environ = [p \in Procs |-> {}]
    /\ argv = [p \in Procs |-> {}]
    /\ hosts = [p \in Procs |-> <<>>]
    /\ current_host = [p \in Procs |-> ""]
    /\ num_gpus = [p \in Procs |-> 0]
    /\ N = 0

NextServe ==
    \/ ModelFn
    \/ \E r \in Reqs :
        \/ Call(r)
        \/ CheckContentType(r)
        \/ Deserialize(r)
        \/ Forward(r)
        \/ GetOutputs(r)

SpecServe == InitServe /\ [][NextServe]_vars

\* ------------------------------------------------------------- claims
Distinct(hs) == \A i, j \in 1..Len(hs) : hs[i] = hs[j] => i = j
PositionOf(hs, h) == CHOOSE i \in 0..(Len(hs) - 1) : hs[i + 1] = h
IsPrefix(s, t) == Len(s) <= Len(t) /\ \A i \in 1..Len(s) : s[i] = t[i]
PhaseOrder == <<"load_train", "load_test", "partition", "fit", "save">>
SavePcs == {"save_symbol", "save_params", "save_shapes"}
NotLeader(p) == hosts[p] = <<>> \/ current_host[p] # hosts[p][1]
\* what a call should return as output_json according to its own payload
OwnOutput(r) == JsonDumps(Softmax(ForwardOut(payload[r].tensor)))

\* C1: a process whose current_host is not hosts[0] never executes save and
\* writes none of the three artifact files; in a job the only process that
\* writes is the one whose current_host is hosts[0].
C1_PersistenceGating ==
    /\ \A p \in Procs : NotLeader(p) =>
          /\ files[p] = {}
          /\ "save" \notin Range(phases[p])
          /\ pc[p] \notin SavePcs
    /\ \A p, q \in Procs : (files[p] # {} /\ files[q] # {}) => p = q

C1_Witness ==
    \E p, q \in Procs :
        /\ NotLeader(p) /\ fitted[p] /\ pc[p] = "done"
        /\ ~NotLeader(q) /\ files[q] = ArtifactFiles /\ pc[q] = "done"

\* C2: with distinct hosts, the host at position i trains on exactly the
\* indices i*(N div H) .. (i+1)*(N div H) - 1: every shard has N div H
\* samples, shards of different hosts are disjoint, together they are
\* 0 .. H*(N div H) - 1, and the last N mod H samples are in no shard.
C2_Sharding ==
    \A p \in Procs : (train_iter[p] # <<>> /\ Distinct(hosts[p])) =>
        LET H == Len(hosts[p])
            q == N \div H
            i == PositionOf(hosts[p], current_host[p])
            done == {d \in Procs : train_iter[d] # <<>>}
        IN  /\ train_iter[p][1] = (i * q)..((i + 1) * q - 1)
            /\ Cardinality(train_iter[p][1]) = q
            /\ \A d \in done \ {p} : train_iter[d][1] \cap train_iter[p][1] = {}
            /\ \A k \in (H * q)..(N - 1) : \A d \in done : k \notin train_iter[d][1]
            /\ Range(hosts[p]) \subseteq {current_host[d] : d \in done} =>
                  UNION {train_iter[d][1] : d \in done} = 0..(H * q - 1)

C2_Witness ==
    /\ Len(hosts[MainProc]) >= 2
    /\ Distinct(hosts[MainProc])
    /\ N % Len(hosts[MainProc]) # 0
    /\ N >= Len(hosts[MainProc])
    /\ \A h \in Range(hosts[MainProc]) : \E d \in Procs :
          current_host[d] = h /\ train_iter[d] # <<>> /\ train_iter[d][1] # {}

\* C3: a call whose input content type is not application/x-npy raises at
\* the content-type check: it never deserializes its payload, never runs a
\* forward pass on the handle, returns nothing, and its step leaves the
\* handle as it was.
C3_Rejected(r) == rpc[r] # "idle" /\ input_content_type[r] # NPY
C3_State ==
    \A r \in Reqs : C3_Rejected(r) =>
        /\ rpc[r] \in {"check", "raised_content_type"}
        /\ npy_payload[r] = <<>>
        /\ ret[r] = <<>>
        /\ fwd_owner # r
C3_Step ==
    \A r \in Reqs : (C3_Rejected(r) /\ rpc'[r] # rpc[r]) =>
        /\ rpc'[r] = "raised_content_type"
        /\ mod' = mod
C3_ContentTypeRejection == []C3_State /\ [][C3_Step]_vars

C3_Witness ==
    \E r \in Reqs :
        /\ rpc[r] = "raised_content_type"
        /\ input_content_type[r] = JSON
        /\ payload[r].format = "npy"

\* C4 (as stated): every call that returns, returns the softmax of the
\* forward-pass output of its own payload, however the calls interleave.
C4_OwnOutputAlways ==
    \A r \in Reqs : rpc[r] = "returned" => ret[r][1] = OwnOutput(r)

\* C4 (amended): a call returns the softmax of the forward-pass output of its
\* own payload whenever no other call's forward pass ran on the handle
\* between its own forward pass and its reading of the outputs.
C4_OwnOutputIfUndisturbed ==
    [][\A r \in Reqs :
          (rpc[r] = "get_outputs" /\ rpc'[r] = "returned" /\ fwd_owner = r) =>
              ret'[r][1] = OwnOutput(r)]_vars

C4_Witness ==
    \E r, s \in Reqs :
        /\ r # s
        /\ rpc[r] = "returned" /\ rpc[s] = "returned"
        /\ payload[r].tensor # payload[s].tensor
        /\ ret[r][1] = OwnOutput(r) /\ ret[s][1] = OwnOutput(s)

\* C5: a run of train enters load, partition, fit and persist in that order,
\* each at most once; save is entered only after fit has returned; and when a
\* load or the fit raises, the run ends there: nothing is entered afterwards
\* and no artifact is written, on the leader as on any other host.
C5_PhaseOrder ==
    \A p \in Procs :
        /\ IsPrefix(phases[p], PhaseOrder)
        /\ ("save" \in Range(phases[p]) \/ files[p] # {} \/ pc[p] \in SavePcs) =>
              (fitted[p] /\ "save" \in Range(phases[p]))
        /\ failedAt[p] \in {"load_train", "load_test", "fit"} =>
              /\ pc[p] = "failed"
              /\ phases[p][Len(phases[p])] = failedAt[p]
              /\ files[p] = {}
        /\ fitted[p] => loaded[p] = {"train", "test"}

C5_Witness ==
    \E p, q \in Procs :
        /\ ~NotLeader(p) /\ failedAt[p] = "fit" /\ files[p] = {}
        /\ phases[p] = <<"load_train", "load_test", "partition", "fit">>
        /\ failedAt[q] = "load_test" /\ phases[q] = <<"load_train", "load_test">>

\* C6 (as stated): the context is the list gpu(0) .. gpu(count-1) when the
\* count is positive, and a single CPU context for every other count.
C6_DeviceSelection ==
    \A p \in Procs : context[p] # <<>> =>
        LET g == num_gpus[p]
        IN  IF g > 0
            THEN /\ context[p][1].isList
                 /\ Len(context[p][1].devs) = g
                 /\ \A k \in 1..g : context[p][1].devs[k] = GpuCtx(k - 1)
            ELSE /\ ~context[p][1].isList
                 /\ context[p][1].devs = <<CpuCtx>>

\* C7: the mode given to fit is local exactly when hosts has one entry and
\* dist_sync when it has two or more; processes with the same hosts list
\* select the same mode.
C7_SyncMode ==
    \A p \in Procs : kvstore[p] # "" =>
        /\ kvstore[p] = "local" <=> Len(hosts[p]) = 1
        /\ Len(hosts[p]) >= 2 => kvstore[p] = "dist_sync"
        /\ \A q \in Procs : (kvstore[q] # "" /\ hosts[q] = hosts[p]) => kvstore[q] = kvstore[p]

C7_Witness ==
    \E p, q \in Procs :
        /\ p # q
        /\ current_host[p] # current_host[q]
        /\ kvstore[p] = "dist_sync" /\ kvstore[q] = "dist_sync"

\* C8: every call that returns declares application/json, whatever output
\* content type was requested.
C8_OutputContentType ==
    \A r \in Reqs : rpc[r] = "returned" =>
        /\ input_content_type[r] = NPY
        /\ ret[r][2] = JSON

C8_Witness ==
    \E r \in Reqs : rpc[r] = "returned" /\ output_content_type[r] = NPY /\ ret[r][2] = JSON

\* C9: when one of the six environment variables is not set, the script
\* does not get past startup: train is not entered, nothing is loaded,
\* fitted or written, also when the flags are given on the command line.
C9_MissingEnv ==
    \A p \in Procs : (pc[p] # "absent" /\ environ[p] # EnvVars) =>
        /\ pc[p] \in {"main", "read_gpus", "failed"}
        /\ pc[p] = "failed" => failedAt[p] \in {"parse_args", "num_gpus"}
        /\ pc[p] = "read_gpus" => environ[p] = EnvVars \ {"SM_NUM_GPUS"}
        /\ phases[p] = <<>>
        /\ loaded[p] = {}
        /\ ~fitted[p]
        /\ files[p] = {}

C9_Witness ==
    \E p \in Procs :
        /\ environ[p] = EnvVars \ {"SM_HOSTS"}
        /\ argv[p] = CliFlags
        /\ pc[p] = "failed"
        /\ failedAt[p] = "parse_args"

\* C10: a process whose current_host is not in hosts gets no shard: it
\* fails at the partition step once both datasets are loaded, fit is never
\* entered and nothing is written.
C10_HostNotListed ==
    \A p \in Procs : current_host[p] \notin Range(hosts[p]) =>
        /\ shard_bounds[p] = <<>>
        /\ train_iter[p] = <<>>
        /\ "fit" \notin Range(phases[p])
        /\ kvstore[p] = ""
        /\ ~fitted[p]
        /\ files[p] = {}
        /\ pc[p] \in {"train", "load_test", "partition", "failed"}
        /\ pc[p] = "failed" => failedAt[p] \in {"load_train", "load_test", "partition"}
        /\ failedAt[p] = "partition" => loaded[p] = {"train", "test"}

C10_Witness ==
    \E p \in Procs :
        /\ hosts[p] # <<>>
        /\ current_host[p] \notin Range(hosts[p])
        /\ failedAt[p] = "partition"
        /\ loaded[p] = {"train", "test"}

====
